---- MODULE Spec2Model ----
(***************************************************************************)
(* Verification model of the life-cockpit messaging dispatch layer:        *)
(*   - the scheduled message processor over the sandbox data store         *)
(*     (azure/message_processor.py, utils/sandbox.py, azure/messaging/)    *)
(*   - the Dataverse circuit breaker and retry wrapper                     *)
(*     (dataverse/circuit_breaker.py, dataverse/dev.py)                    *)
(*   - the guardrail wrapper (utils/guardrails.py)                         *)
(*   - the messaging factory and its providers (azure/messaging/)          *)
(*   - the Dataverse connection pool (dataverse/client.py)                 *)
(* Each subsystem has its own specification; the variables of the other    *)
(* subsystems stay at their initial values.                                *)
(***************************************************************************)
EXTENDS Integers, Sequences, FiniteSets, TLC

VARIABLES
    \* --- scheduled message processor over the data store ---
    sched,          \* data['scheduled_messages']: sequence of records
    mlog,           \* data['messages_log']: sequence of log entries
    summary,        \* what the last call of process_scheduled_messages returned
    batch,          \* the messages the last run's pending query returned
    trace,          \* provider dispatches and store writes of the last run, in order
    nruns,          \* number of processor runs so far
    nfaults,        \* number of collaborator faults so far
    added,          \* a queue record was created since the last run
    \* --- circuit breaker (dataverse_breaker) and its clock ---
    cb_state, failure_count, last_failure_time, clock,
    consec,         \* consecutive transiently failed calls since the last success
    last,           \* the last guarded data-store call: state before, outcome, attempts
    entity_cache,   \* _entity_cache: the logical names whose set name is cached
    \* --- retry wrapper on its own ---
    script,         \* what each successive HTTP attempt would do
    retried,        \* result of _with_retry on the script
    \* --- guardrails ---
    require_approval, dry_run_default,
    active_runs,    \* guardrail_manager.active_runs, indexed by run id 1..Len
    gres,           \* the last guarded invocation: what the wrapper did and returned
    \* --- messaging factory and providers on their own ---
    providers,      \* MessagingFactory.providers in insertion order
    flast,          \* the last routing or send call on the factory
    psent,          \* the last send_message call made on a provider directly
    \* --- Dataverse connection pool ---
    pooled_clients, \* _pooled_clients: key -> client id (0: key absent)
    clients,        \* every httpx.Client created so far, by id
    got,            \* the last call of get_pooled_client: key, client, created
    token_now,      \* the token dv_token() returns at present
    \* --- Dynamics message processor over the data store ---
    dyn_table,      \* data['cre92_scheduledmessage']: sequence of records
    dyn_log,        \* data['messages_log'] as the Dynamics processor writes it
    dyn_summary,    \* what the last call of process_dynamics_messages returned
    dyn_dry_run,    \* the dry_run argument of the last call
    dyn_batch,      \* the records the last run's pending query returned
    dyn_trace,      \* dispatches and status updates of the last run, in order
    dyn_runs        \* number of runs so far

procVars  == <<sched, mlog, summary, batch, trace, nruns, nfaults, added>>
cbVars    == <<cb_state, failure_count, last_failure_time, clock, consec, last,
               entity_cache>>
retryVars == <<script, retried>>
guardVars == <<require_approval, dry_run_default, active_runs, gres>>
msgVars   == <<providers, flast, psent>>
poolVars  == <<pooled_clients, clients, got, token_now>>
dynVars   == <<dyn_table, dyn_log, dyn_summary, dyn_dry_run, dyn_batch, dyn_trace,
               dyn_runs>>
vars == <<sched, mlog, summary, batch, trace, nruns, nfaults, added,
          cb_state, failure_count, last_failure_time, clock, consec, last,
          entity_cache, script, retried,
          require_approval, dry_run_default, active_runs, gres,
          providers, flast, psent, pooled_clients, clients, got, token_now,
          dyn_table, dyn_log, dyn_summary, dyn_dry_run, dyn_batch, dyn_trace,
          dyn_runs>>

(***************************************************************************)
(* Bounds                                                                  *)
(***************************************************************************)
MaxMsgs == 2        \* records ever created in scheduled_messages
MaxRuns == 2        \* processor runs explored
MaxFaults == 1      \* collaborator faults injected over a behaviour

(***************************************************************************)
(* Messaging providers and factory                                         *)
(***************************************************************************)
NoType == "<none>"      \* message.get('message_type') is None
None == "<None>"

\* A registry entry: the key in MessagingFactory.providers and the class of
\* the provider stored under it
Registered(name, cls) == [name |-> name, cls |-> cls]
NoProvider == Registered(None, None)

\* MessagingFactory._initialize_providers: 'graph' is registered before
\* 'respond', each only when the configuration has its key
initialize_providers(config) ==
    (IF "graph" \in config THEN <<Registered("graph", "graph")>> ELSE <<>>) \o
    (IF "respond" \in config THEN <<Registered("respond", "respond")>> ELSE <<>>)

\* The registry MessageProcessor.__init__ builds: both keys configured
Providers == initialize_providers({"graph", "respond"})

provider_name(p) ==
    IF p = "graph" THEN "GraphMessagingProvider" ELSE "RespondMessagingProvider"

supports_message_type(p, message_type) ==
    IF p = "graph" THEN message_type \in {"email", "teams"}
    ELSE message_type \in {"telegram", "sms", "whatsapp"}

\* base_fields + type_specific_fields.get(message_type, [])
get_required_fields(message_type) ==
    {"message_type", "body"} \cup
    (CASE message_type = "email"    -> {"recipient", "subject"}
       [] message_type = "sms"      -> {"recipient"}
       [] message_type = "teams"    -> {"channel_id"}
       [] message_type = "telegram" -> {"chat_id"}
       [] message_type = "whatsapp" -> {"recipient"}
       [] OTHER                     -> {})

\* The fields of a message that are present and non-empty
PresentFields(m) ==
    m.fields \cup (IF m.message_type = NoType THEN {} ELSE {"message_type"})

validate_message(m) ==
    \A f \in get_required_fields(m.message_type) : f \in PresentFields(m)

\* Index of the first registered provider supporting the type, 0 when none
RECURSIVE FirstSupporting(_, _, _)
FirstSupporting(registry, i, message_type) ==
    IF i > Len(registry) THEN 0
    ELSE IF supports_message_type(registry[i].cls, message_type) THEN i
    ELSE FirstSupporting(registry, i + 1, message_type)

\* Mutant: the provider registered last wins
get_provider_last(registry, message_type) ==
    LET S == {i \in 1..Len(registry) :
                 supports_message_type(registry[i].cls, message_type)}
    IN IF S = {} THEN NoProvider
       ELSE registry[CHOOSE i \in S : \A j \in S : j <= i]

get_provider_for_message_type(registry, message_type) ==
    LET i == FirstSupporting(registry, 1, message_type)
    IN IF i = 0 THEN NoProvider ELSE registry[i]

\* MessagingFactory.add_provider: a dict assignment, an existing key keeps
\* its place
add_provider(registry, name, cls) ==
    IF \E i \in 1..Len(registry) : registry[i].name = name
    THEN [i \in 1..Len(registry) |->
             IF registry[i].name = name THEN Registered(name, cls) ELSE registry[i]]
    ELSE Append(registry, Registered(name, cls))

\* MessagingFactory.remove_provider
remove_provider(registry, name) ==
    SelectSeq(registry, LAMBDA r : r.name # name)

MessageResult(success, provider, external_id, error_message, dispatched) ==
    [success |-> success, provider |-> provider, external_id |-> external_id,
     error_message |-> error_message, dispatched |-> dispatched]

\* Mutant: the provider dispatches without validating the message
provider_send_unvalidated(p, m, raises) ==
    IF ~supports_message_type(p, m.message_type)
    THEN MessageResult(FALSE, provider_name(p), None,
                       "Unsupported message type: " \o m.message_type, FALSE)
    ELSE IF raises
    THEN MessageResult(FALSE, provider_name(p), None, "vendor error", TRUE)
    ELSE MessageResult(TRUE, provider_name(p), p \o "_" \o m.message_type, None, TRUE)

\* GraphMessagingProvider.send_message / RespondMessagingProvider.send_message.
\* raises: the vendor call inside the try block throws.
provider_send_message(p, m, raises) ==
    IF ~validate_message(m)
    THEN MessageResult(FALSE, provider_name(p), None, "Message validation failed", FALSE)
    ELSE IF ~supports_message_type(p, m.message_type)
    THEN MessageResult(FALSE, provider_name(p), None,
                       "Unsupported message type: " \o m.message_type, FALSE)
    ELSE IF raises
    THEN MessageResult(FALSE, provider_name(p), None, "vendor error", TRUE)
    ELSE MessageResult(TRUE, provider_name(p), p \o "_" \o m.message_type, None, TRUE)

\* Mutant: the factory hands a message without a type to its first provider
factory_send_untyped(registry, m, raises) ==
    LET p == IF m.message_type = NoType /\ registry # <<>> THEN registry[1]
             ELSE get_provider_for_message_type(registry, m.message_type)
    IN IF p = NoProvider
       THEN MessageResult(FALSE, None, None,
                "No provider available for message type: " \o m.message_type, FALSE)
       ELSE provider_send_message(p.cls, m, raises)

\* MessagingFactory.send_message over a registry
factory_send(registry, m, raises) ==
    IF m.message_type = NoType
    THEN MessageResult(FALSE, None, None, "Message type is required", FALSE)
    ELSE LET p == get_provider_for_message_type(registry, m.message_type)
         IN IF p = NoProvider
            THEN MessageResult(FALSE, None, None,
                     "No provider available for message type: " \o m.message_type, FALSE)
            ELSE provider_send_message(p.cls, m, raises)

\* MessagingFactory.send_message as the processor calls it
send_message(m, raises) == factory_send(Providers, m, raises)

\* The messages the factory and the providers are called with: every message
\* type the providers know, an unknown one and none at all, with every subset
\* of the fields any type requires
MessageTypes == {"email", "sms", "teams", "telegram", "whatsapp"}
FieldNames == {"recipient", "subject", "body", "channel_id", "chat_id"}
AllMessages ==
    [message_type : MessageTypes \cup {"carrier_pigeon", NoType},
     fields : SUBSET FieldNames]
FactoryMessages ==
    [message_type : {"email", "sms", "carrier_pigeon", NoType},
     fields : SUBSET {"recipient", "subject", "body"}]
NoMessage == [message_type |-> NoType, fields |-> {}]
NoSend == MessageResult(FALSE, None, None, None, FALSE)
NoOp == [op |-> "none", message_type |-> NoType, m |-> NoMessage, raises |-> FALSE,
         provider |-> NoProvider, again |-> NoProvider, result |-> NoSend]
NoProviderSend == [called |-> FALSE, cls |-> "graph", m |-> NoMessage,
                   raises |-> FALSE, result |-> NoSend]
ProviderKeys == {"graph", "respond", "backup"}

\* MessagingFactory.__init__ with any configuration
MsgInit ==
    /\ providers \in {initialize_providers(c) : c \in SUBSET {"graph", "respond"}}
    /\ flast = NoOp
    /\ psent = NoProviderSend

\* MessagingFactory.add_provider: an instance of one of the two provider
\* classes is stored under a key
AddProvider ==
    /\ \E name \in ProviderKeys, cls \in {"graph", "respond"} :
          /\ name \in {"graph", "respond"} => cls = name
          /\ providers' = add_provider(providers, name, cls)
    /\ providers' # providers
    /\ flast' = NoOp
    /\ UNCHANGED psent

\* MessagingFactory.remove_provider
RemoveProvider ==
    /\ \E name \in ProviderKeys : providers' = remove_provider(providers, name)
    /\ providers' # providers
    /\ flast' = NoOp
    /\ UNCHANGED psent

\* MessagingFactory.get_provider_for_message_type, called twice in a row
Route ==
    /\ \E t \in MessageTypes \cup {"carrier_pigeon"} :
          flast' = [NoOp EXCEPT !.op = "route", !.message_type = t,
                       !.provider = get_provider_for_message_type(providers, t),
                       !.again = get_provider_for_message_type(providers, t)]
    /\ UNCHANGED <<providers, psent>>

\* MessagingFactory.send_message
FactorySend ==
    /\ \E m \in FactoryMessages, raises \in BOOLEAN :
          flast' = [NoOp EXCEPT !.op = "send", !.message_type = m.message_type,
                       !.m = m, !.raises = raises,
                       !.result = factory_send(providers, m, raises)]
    /\ UNCHANGED <<providers, psent>>

\* send_message called on a provider instance
ProviderSend ==
    /\ \E cls \in {"graph", "respond"}, m \in AllMessages, raises \in BOOLEAN :
          psent' = [called |-> TRUE, cls |-> cls, m |-> m, raises |-> raises,
                    result |-> provider_send_message(cls, m, raises)]
    /\ UNCHANGED <<providers, flast>>

(***************************************************************************)
(* Sandbox data store (MockDataverse)                                      *)
(***************************************************************************)
BatchTop == 50      \* top=50 in _query_pending_messages
StoreError == "store error"

\* records[:top]; the filter and orderby arguments are only logged
query_records(records, filter, top) ==
    IF Len(records) > top THEN SubSeq(records, 1, top) ELSE records

\* record id is the table length + 1; the record is appended
create_record(records, data) ==
    Append(records, [data EXCEPT !.id = Len(records) + 1])

RecordIndex(records, record_id) ==
    IF \E i \in 1..Len(records) : records[i].id = record_id
    THEN CHOOSE i \in 1..Len(records) :
            /\ records[i].id = record_id
            /\ \A j \in 1..(i - 1) : records[j].id # record_id
    ELSE 0

\* update of the first record with that id; ok = FALSE stands for the raise
update_status(records, record_id, status, error_message) ==
    LET i == RecordIndex(records, record_id)
    IN IF i = 0 THEN [ok |-> FALSE, records |-> records]
       ELSE [ok |-> TRUE,
             records |-> [records EXCEPT ![i].status = status,
                                         ![i].error_message = error_message]]

(***************************************************************************)
(* Scheduled message processor                                             *)
(***************************************************************************)
\* The faults the collaborators may show while one message is processed
Env == [dispatch : BOOLEAN, log : BOOLEAN, mark_sent : BOOLEAN, mark_failed : BOOLEAN]
NoFault == [dispatch |-> FALSE, log |-> FALSE, mark_sent |-> FALSE, mark_failed |-> FALSE]

PendingFilter == "status eq 'revised' and send_time le utcNow()"

query_pending_messages(records) == query_records(records, PendingFilter, BatchTop)

\* A run's working state: the store, the results so far and the trace
Work(s, l, r, t) == [sched |-> s, mlog |-> l, results |-> r, trace |-> t]

\* One entry of the trace; from is the status the record had before a write
Event(op, id, ok, from) == [op |-> op, id |-> id, ok |-> ok, from |-> from]

StatusOf(records, record_id) ==
    LET i == RecordIndex(records, record_id)
    IN IF i = 0 THEN "" ELSE records[i].status

\* Mutant: the record is marked failed with a fixed text
mark_message_failed_generic(w, message_id, error_message, fault) ==
    LET u == IF fault THEN [ok |-> FALSE, records |-> w.sched]
             ELSE update_status(w.sched, message_id, "failed", "Processing failed")
    IN [w EXCEPT !.sched = u.records,
                 !.trace = Append(w.trace, Event("mark_failed", message_id, u.ok,
                                                 StatusOf(w.sched, message_id)))]

\* _mark_message_failed: the store error is swallowed
mark_message_failed(w, message_id, error_message, fault) ==
    LET u == IF fault THEN [ok |-> FALSE, records |-> w.sched]
             ELSE update_status(w.sched, message_id, "failed", error_message)
    IN [w EXCEPT !.sched = u.records,
                 !.trace = Append(w.trace, Event("mark_failed", message_id, u.ok,
                                                 StatusOf(w.sched, message_id)))]

\* _mark_message_sent: the store error is raised again (raised = TRUE)
mark_message_sent(w, message_id, fault) ==
    LET u == IF fault THEN [ok |-> FALSE, records |-> w.sched]
             ELSE update_status(w.sched, message_id, "sent", "")
    IN [raised |-> ~u.ok,
        w |-> [w EXCEPT !.sched = u.records,
                        !.trace = Append(w.trace, Event("mark_sent", message_id, u.ok,
                                                        StatusOf(w.sched, message_id)))]]

\* Mutant: the log entry does not name the provider
log_message_sent_anon(w, m, r, fault) ==
    LET entry == [id |-> 0, message_id |-> m.id, message_type |-> m.message_type,
                  status |-> "sent", provider |-> None,
                  message_id_external |-> r.external_id]
    IN [w EXCEPT !.mlog = IF fault THEN w.mlog ELSE create_record(w.mlog, entry),
                 !.trace = Append(w.trace, Event("log", m.id, ~fault, ""))]

\* _log_message_sent: the store error is swallowed
log_message_sent(w, m, r, fault) ==
    LET entry == [id |-> 0, message_id |-> m.id, message_type |-> m.message_type,
                  status |-> "sent", provider |-> r.provider,
                  message_id_external |-> r.external_id]
    IN [w EXCEPT !.mlog = IF fault THEN w.mlog ELSE create_record(w.mlog, entry),
                 !.trace = Append(w.trace, Event("log", m.id, ~fault, ""))]

ResultEntry(status, m, error) ==
    [status |-> status, message_id |-> m.id, error |-> error]

\* Mutant: a failed log write ends the processing of the message
dispatch_message_log_raises(w, m, e) ==
    LET r  == send_message(m, e.dispatch)
        w1 == IF r.dispatched
              THEN [w EXCEPT !.trace = Append(w.trace,
                                Event("dispatch", m.id, r.success, m.status))]
              ELSE w
    IN IF r.success
       THEN LET w2 == log_message_sent(w1, m, r, e.log)
                ms == mark_message_sent(w2, m.id, e.mark_sent)
            IN IF e.log
               THEN [raised |-> TRUE, w |-> w2, result |-> ResultEntry("success", m, "")]
               ELSE [raised |-> ms.raised, w |-> ms.w,
                     result |-> ResultEntry("success", m, "")]
       ELSE [raised |-> FALSE,
             w |-> mark_message_failed(w1, m.id, r.error_message, e.mark_failed),
             result |-> ResultEntry("failed", m, r.error_message)]

\* _process_message after the dry-run return: dispatch, then log and mark
dispatch_message(w, m, e) ==
    LET r  == send_message(m, e.dispatch)
        w1 == IF r.dispatched
              THEN [w EXCEPT !.trace = Append(w.trace,
                                Event("dispatch", m.id, r.success, m.status))]
              ELSE w
    IN IF r.success
       THEN LET w2 == log_message_sent(w1, m, r, e.log)
                ms == mark_message_sent(w2, m.id, e.mark_sent)
            IN [raised |-> ms.raised, w |-> ms.w,
                result |-> ResultEntry("success", m, "")]
       ELSE [raised |-> FALSE,
             w |-> mark_message_failed(w1, m.id, r.error_message, e.mark_failed),
             result |-> ResultEntry("failed", m, r.error_message)]

\* Mutant: the dry_run flag is not looked at
process_message_live(w, m, dry_run, e) == dispatch_message(w, m, e)

\* _process_message: returns the working state, the result entry and whether
\* an exception left the function
process_message(w, m, dry_run, e) ==
    IF dry_run
    THEN [raised |-> FALSE, w |-> w, result |-> ResultEntry("dry_run", m, "")]
    ELSE dispatch_message(w, m, e)

\* Mutant: the exception of one message is not turned into a result entry
process_one_dropped(w, m, dry_run, e) ==
    LET p == process_message(w, m, dry_run, e)
    IN IF ~p.raised
       THEN [p.w EXCEPT !.results = Append(p.w.results, p.result)]
       ELSE p.w

\* Mutant: the entry of a message whose processing raised carries no error
process_one_silent(w, m, dry_run, e) ==
    LET p == process_message(w, m, dry_run, e)
    IN IF ~p.raised
       THEN [p.w EXCEPT !.results = Append(p.w.results, p.result)]
       ELSE LET w1 == [p.w EXCEPT !.results =
                          Append(p.w.results, ResultEntry("failed", m, ""))]
            IN IF ~dry_run
               THEN mark_message_failed(w1, m.id, StoreError, e.mark_failed)
               ELSE w1

\* One iteration of the for loop of process_scheduled_messages
process_one(w, m, dry_run, e) ==
    LET p == process_message(w, m, dry_run, e)
    IN IF ~p.raised
       THEN [p.w EXCEPT !.results = Append(p.w.results, p.result)]
       ELSE LET w1 == [p.w EXCEPT !.results =
                          Append(p.w.results, ResultEntry("failed", m, StoreError))]
            IN IF ~dry_run
               THEN mark_message_failed(w1, m.id, StoreError, e.mark_failed)
               ELSE w1

RECURSIVE process_loop(_, _, _, _)
process_loop(w, messages, dry_run, envs) ==
    IF messages = <<>> THEN w
    ELSE process_loop(process_one(w, Head(messages), dry_run, Head(envs)),
                      Tail(messages), dry_run, Tail(envs))

CountStatus(results, status) ==
    Cardinality({i \in 1..Len(results) : results[i].status = status})

NoSummary == [kind |-> "none", dry_run |-> FALSE, processed_count |-> 0,
              success_count |-> 0, failed_count |-> 0,
              has_results |-> FALSE, results |-> <<>>]

\* The two return statements of process_scheduled_messages
EmptySummary(dry_run) ==
    [NoSummary EXCEPT !.kind = "summary", !.dry_run = dry_run]

\* Mutant: the failed entries are counted under a status no entry has
BatchSummary_miscounted(dry_run, results) ==
    [kind |-> "summary", dry_run |-> dry_run,
     processed_count |-> Len(results),
     success_count |-> CountStatus(results, "success"),
     failed_count |-> CountStatus(results, "error"),
     has_results |-> TRUE, results |-> results]

BatchSummary(dry_run, results) ==
    [kind |-> "summary", dry_run |-> dry_run,
     processed_count |-> Len(results),
     success_count |-> CountStatus(results, "success"),
     failed_count |-> CountStatus(results, "failed"),
     has_results |-> TRUE, results |-> results]

\* The faults that can matter for a message: a fault of a step that is not
\* reached is the same behaviour as no fault
FaultsFor(m, dry_run) ==
    IF dry_run THEN {NoFault}
    ELSE IF ~send_message(m, FALSE).success
    THEN {e \in Env : ~e.dispatch /\ ~e.log /\ ~e.mark_sent}
    ELSE {e \in Env : /\ e.dispatch => (~e.log /\ ~e.mark_sent)
                      /\ (~e.dispatch /\ ~e.mark_sent) => ~e.mark_failed}

FaultCount(e) ==
    (IF e.dispatch THEN 1 ELSE 0) + (IF e.log THEN 1 ELSE 0) +
    (IF e.mark_sent THEN 1 ELSE 0) + (IF e.mark_failed THEN 1 ELSE 0)

RECURSIVE SumFaults(_)
SumFaults(envs) ==
    IF envs = <<>> THEN 0 ELSE FaultCount(Head(envs)) + SumFaults(Tail(envs))

RECURSIVE EnvSeqs(_, _)
EnvSeqs(messages, dry_run) ==
    IF messages = <<>> THEN {<<>>}
    ELSE {<<e>> \o rest : e \in FaultsFor(Head(messages), dry_run),
                          rest \in EnvSeqs(Tail(messages), dry_run)}

\* Messages an upstream process may put on the queue
SampleMsgs ==
    { [message_type |-> "email", fields |-> {"recipient", "subject", "body"}],
      [message_type |-> "email", fields |-> {"recipient", "body"}],
      [message_type |-> "sms",   fields |-> {"recipient", "body"}] }

ProcInit ==
    /\ sched = <<>>
    /\ mlog = <<>>
    /\ summary = NoSummary
    /\ batch = <<>>
    /\ trace = <<>>
    /\ nruns = 0
    /\ nfaults = 0
    /\ added = FALSE

\* An upstream process creates a queue record (MockDataverse.create_record)
Enqueue ==
    /\ Len(sched) < MaxMsgs
    /\ \E s \in SampleMsgs :
          sched' = create_record(sched,
                      [id |-> 0, status |-> "revised",
                       message_type |-> s.message_type, fields |-> s.fields,
                       error_message |-> ""])
    /\ added' = TRUE
    /\ UNCHANGED <<mlog, summary, batch, trace, nruns, nfaults>>

\* process_scheduled_messages: the pending query raises, the run raises
RunQueryFails ==
    /\ nruns < MaxRuns
    /\ \E dry_run \in BOOLEAN :
          summary' = [NoSummary EXCEPT !.kind = "raised", !.dry_run = dry_run]
    /\ batch' = <<>>
    /\ trace' = <<>>
    /\ nruns' = nruns + 1
    /\ nfaults < MaxFaults
    /\ nfaults' = nfaults + 1
    /\ added' = FALSE
    /\ UNCHANGED <<sched, mlog>>

\* process_scheduled_messages: one whole run
ProcessRun ==
    /\ nruns < MaxRuns
    /\ \E dry_run \in BOOLEAN :
          LET messages == query_pending_messages(sched)
          IN IF messages = <<>>
             THEN /\ summary' = EmptySummary(dry_run)
                  /\ batch' = <<>>
                  /\ trace' = <<>>
                  /\ UNCHANGED <<sched, mlog, nfaults>>
             ELSE \E envs \in EnvSeqs(messages, dry_run) :
                     LET w == process_loop(Work(sched, mlog, <<>>, <<>>),
                                           messages, dry_run, envs)
                     IN /\ nfaults + SumFaults(envs) <= MaxFaults
                        /\ nfaults' = nfaults + SumFaults(envs)
                        /\ sched' = w.sched
                        /\ mlog' = w.mlog
                        /\ trace' = w.trace
                        /\ batch' = messages
                        /\ summary' = BatchSummary(dry_run, w.results)
    /\ nruns' = nruns + 1
    /\ added' = FALSE

(***************************************************************************)
(* Claims about the scheduled message processor                            *)
(***************************************************************************)
IsSummary == summary.kind = "summary"
LiveRun == IsSummary /\ ~summary.dry_run /\ batch # <<>>

\* The processing of the message with this id raised (the sent mark failed)
Raised(message_id) ==
    \E k \in 1..Len(trace) :
        trace[k].op = "mark_sent" /\ trace[k].id = message_id /\ ~trace[k].ok

\* C1: a run over a batch of N >= 1 queried messages returns a summary whose
\* results array has exactly N entries, the i-th for the i-th message of the
\* batch, and a message whose processing raised has a failed entry; the
\* messages after it are still processed.
C1_BatchNeverAborted ==
    (IsSummary /\ batch # <<>>) =>
        /\ summary.has_results
        /\ Len(summary.results) = Len(batch)
        /\ \A i \in 1..Len(batch) :
              /\ summary.results[i].message_id = batch[i].id
              /\ Raised(batch[i].id) => summary.results[i].status = "failed"
              /\ ~summary.dry_run =>
                    \E k \in 1..Len(trace) : trace[k].id = batch[i].id

\* C1 witness: the first message raised and a later one was sent
C1_Witness ==
    /\ LiveRun /\ Len(batch) >= 2
    /\ Raised(batch[1].id)
    /\ summary.results[2].status = "success"

\* C2: a message whose status is not 'revised' is never selected by the
\* pending query and never dispatched to a provider.
C2_OnlyRevisedSelected ==
    /\ \A i \in 1..Len(batch) : batch[i].status = "revised"
    /\ \A k \in 1..Len(trace) :
          trace[k].op = "dispatch" => trace[k].from = "revised"

\* C3: the processor writes a status only onto a record that is revised: no
\* write onto a record that is already sent or failed.
C3_OnlyRevisedWritten ==
    \A k \in 1..Len(trace) :
        (trace[k].op \in {"mark_sent", "mark_failed"} /\ trace[k].ok)
            => trace[k].from = "revised"

\* C4: a run with dry_run = true attempts no dispatch and no store write, and
\* leaves both tables of the data store as they were.
C4_DryRunFrame ==
    [][(nruns' = nruns + 1 /\ summary'.dry_run)
          => (sched' = sched /\ mlog' = mlog /\ trace' = <<>>)]_vars

\* C4 witness: a dry run over a non-empty batch has returned
C4_Witness ==
    /\ IsSummary /\ summary.dry_run
    /\ summary.processed_count >= 1
    /\ \A i \in 1..Len(summary.results) : summary.results[i].status = "dry_run"

\* C5 as stated: in every summary processed_count = success_count +
\* failed_count, and the results array has processed_count entries.
C5_CountsAddUp ==
    IsSummary =>
        /\ summary.processed_count = summary.success_count + summary.failed_count
        /\ summary.has_results => Len(summary.results) = summary.processed_count

\* C5 amended: the results array of a summary has processed_count entries;
\* in a live run processed_count = success_count + failed_count; in a dry run
\* every entry is a dry_run entry, so both counts are 0 whatever the batch.
C5_CountsLive ==
    IsSummary =>
        /\ summary.has_results => Len(summary.results) = summary.processed_count
        /\ summary.processed_count = Len(batch)
        /\ ~summary.dry_run =>
              summary.processed_count = summary.success_count + summary.failed_count
        /\ summary.dry_run =>
              (summary.success_count = 0 /\ summary.failed_count = 0)

\* C5 witness: a live summary with a sent and a failed message
C5_Witness ==
    LiveRun /\ summary.success_count >= 1 /\ summary.failed_count >= 1

\* C6: a run right after a live run in which every message was sent, with no
\* record created in between, returns processed_count = 0.
C6_RerunFindsNothing ==
    [][(/\ nruns' = nruns + 1
        /\ LiveRun
        /\ summary.success_count = summary.processed_count
        /\ ~added
        /\ summary'.kind = "summary")
          => summary'.processed_count = 0]_vars

(***************************************************************************)
(* Retry wrapper (dataverse/dev.py)                                        *)
(***************************************************************************)
MaxRetries == 3         \* max_retries default of _with_retry
BackoffFactor == 2      \* backoff_factor default of _with_retry

\* What one HTTP attempt can do: return, raise httpx.TimeoutException,
\* httpx.ConnectError, an HTTPStatusError with a 5xx or a 4xx status, another
\* httpx.HTTPError (a read error), or an exception that is no httpx.HTTPError
\* (dv_token's KeyError, a JSON decoding ValueError)
Outcomes == {"ok", "timeout", "connect", "5xx", "4xx", "transport", "other"}
Transient == {"timeout", "connect", "5xx"}
HttpErrors == {"timeout", "connect", "5xx", "4xx", "transport"}

NoError == <<"none", 0>>
NotCalled == [raised |-> FALSE, error |-> NoError, attempts |-> 0, slept |-> 0]

RECURSIVE Pow(_, _)
Pow(b, n) == IF n = 0 THEN 1 ELSE b * Pow(b, n - 1)

\* The for loop of _with_retry from the given attempt on (attempt counts from 0)
RECURSIVE retry_loop(_, _, _, _)
retry_loop(outcomes, attempt, last_exc, slept) ==
    IF attempt >= MaxRetries
    THEN [raised |-> TRUE, error |-> last_exc, attempts |-> attempt, slept |-> slept]
    ELSE LET o == outcomes[attempt + 1]
         IN IF o = "ok"
            THEN [raised |-> FALSE, error |-> NoError, attempts |-> attempt + 1, slept |-> slept]
            ELSE IF o \in Transient
            THEN retry_loop(outcomes, attempt + 1, <<o, attempt + 1>>,
                            IF attempt < MaxRetries - 1
                            THEN slept + Pow(BackoffFactor, attempt) ELSE slept)
            ELSE [raised |-> TRUE, error |-> <<o, attempt + 1>>,
                  attempts |-> attempt + 1, slept |-> slept]

\* Mutant: a 4xx response is retried like a 5xx
RECURSIVE retry_loop_4xx(_, _, _, _)
retry_loop_4xx(outcomes, attempt, last_exc, slept) ==
    IF attempt >= MaxRetries
    THEN [raised |-> TRUE, error |-> last_exc, attempts |-> attempt, slept |-> slept]
    ELSE LET o == outcomes[attempt + 1]
         IN IF o = "ok"
            THEN [raised |-> FALSE, error |-> NoError, attempts |-> attempt + 1, slept |-> slept]
            ELSE IF o \in Transient \cup {"4xx"}
            THEN retry_loop_4xx(outcomes, attempt + 1, <<o, attempt + 1>>,
                                IF attempt < MaxRetries - 1
                                THEN slept + Pow(BackoffFactor, attempt) ELSE slept)
            ELSE [raised |-> TRUE, error |-> <<o, attempt + 1>>,
                  attempts |-> attempt + 1, slept |-> slept]

with_retry_4xx(outcomes) == retry_loop_4xx(outcomes, 0, NoError, 0)

with_retry(outcomes) == retry_loop(outcomes, 0, NoError, 0)

RetryInit ==
    /\ script \in [1..MaxRetries -> Outcomes]
    /\ retried = NotCalled

\* One call of _with_retry(fn), fn behaving as the script says
CallWithRetry ==
    /\ retried = NotCalled
    /\ retried' = with_retry(script)
    /\ UNCHANGED script

(***************************************************************************)
(* Circuit breaker (dataverse/circuit_breaker.py)                          *)
(***************************************************************************)
FailureThreshold == 5       \* dataverse_breaker failure_threshold
RecoveryTimeoutS == 30      \* dataverse_breaker recovery_timeout_s
MaxClock == 50              \* seconds of wall clock explored
MaxOpsClock == 8            \* seconds of wall clock explored with create_note

NoTime == 0 - 1             \* last_failure_time is None
NoCall == [pre_state |-> "closed", pre_elapsed |-> FALSE, probe |-> FALSE,
           kind |-> "none", fn_calls |-> 0, attempts |-> 0]

Elapsed(now) ==
    last_failure_time # NoTime /\ now - last_failure_time >= RecoveryTimeoutS

\* CircuitBreaker._on_success
on_success == [state |-> "closed", failure_count |-> 0, last_failure_time |-> NoTime]

\* Mutant: the circuit opens one failure late
on_failure_late(state, count, now) ==
    [state |-> IF count + 1 > FailureThreshold THEN "open" ELSE state,
     failure_count |-> count + 1,
     last_failure_time |-> now]

\* Mutant: the time of the failure is not recorded
on_failure_untimed(state, count, now) ==
    [state |-> IF count + 1 >= FailureThreshold THEN "open" ELSE state,
     failure_count |-> count + 1,
     last_failure_time |-> NoTime]

\* CircuitBreaker._on_failure, called at time now
on_failure(state, count, now) ==
    [state |-> IF count + 1 >= FailureThreshold THEN "open" ELSE state,
     failure_count |-> count + 1,
     last_failure_time |-> now]

\* The attempts a guarded operation is exposed to: a timeout stands for the
\* transient errors, a 4xx for the httpx errors that are not retried
CallOutcomes == {"ok", "timeout", "4xx", "other"}

CallScripts ==
    {s \in [1..MaxRetries -> CallOutcomes] :
        \A i \in 1..MaxRetries :
            (\E j \in 1..(i - 1) : s[j] \notin Transient) => s[i] = "ok"}

CallKind(r) ==
    IF ~r.raised THEN "return"
    ELSE IF r.error[1] \in Transient THEN "transient"
    ELSE IF r.error[1] \in HttpErrors THEN "http_error"
    ELSE "exception"

CbInit ==
    /\ cb_state = "closed"
    /\ failure_count = 0
    /\ last_failure_time = NoTime
    /\ clock = 0
    /\ consec = 0
    /\ last = NoCall
    /\ entity_cache = {}

\* Time passes between two calls
Tick ==
    /\ \E d \in {RecoveryTimeoutS - 1, RecoveryTimeoutS} :
          /\ clock + d <= MaxClock
          /\ clock' = clock + d
    /\ UNCHANGED <<cb_state, failure_count, last_failure_time, consec, last,
                   entity_cache>>

\* CircuitBreaker.__call__.wrapper around whoami: the circuit is open and the
\* recovery timeout has not elapsed
CallFailFast ==
    /\ cb_state = "open"
    /\ ~Elapsed(clock)
    /\ last' = [pre_state |-> cb_state, pre_elapsed |-> FALSE, probe |-> FALSE,
                kind |-> "circuit_open", fn_calls |-> 0, attempts |-> 0]
    /\ UNCHANGED <<cb_state, failure_count, last_failure_time, clock, consec,
                   entity_cache>>

\* CircuitBreaker.__call__.wrapper around whoami: the wrapped function, which
\* is _with_retry(_op), is called
CallThrough ==
    /\ cb_state = "open" => Elapsed(clock)
    /\ \E s \in CallScripts :
          LET entered == IF cb_state = "open" THEN "half_open" ELSE cb_state
              r == with_retry(s)
              kind == CallKind(r)
              now == clock + r.slept
              post == IF kind = "return" THEN on_success
                      ELSE IF kind \in {"transient", "http_error"}
                      THEN on_failure(entered, failure_count, now)
                      ELSE [state |-> entered, failure_count |-> failure_count,
                            last_failure_time |-> last_failure_time]
          IN /\ now <= MaxClock
             /\ clock' = now
             /\ cb_state' = post.state
             /\ failure_count' = post.failure_count
             /\ last_failure_time' = post.last_failure_time
             /\ consec' = IF kind = "return" THEN 0
                          ELSE IF kind = "transient" THEN consec + 1
                          ELSE consec
             /\ last' = [pre_state |-> cb_state, pre_elapsed |-> Elapsed(clock),
                         probe |-> entered = "half_open",
                         kind |-> kind, fn_calls |-> 1, attempts |-> r.attempts]
    /\ UNCHANGED entity_cache

\* What one breaker wrapper does to the breaker when the function it wraps
\* ends in the given way at time now
breaker_after(b, kind, now) ==
    IF kind = "return" THEN on_success
    ELSE IF kind \in {"transient", "http_error"}
    THEN on_failure(b.state, b.failure_count, now)
    ELSE b

\* The logical names notes are attached to
LogicalNames == {"contact"}

\* create_note: the breaker wrapper of create_note around entity_set, which
\* calls entity_def through its own breaker wrapper when the name is not
\* cached, and around _with_retry of the POST
create_note(b, cache, logical, now, def_script, post_script) ==
    LET d      == with_retry(def_script)
        dkind  == CallKind(d)
        now1   == now + d.slept
        p      == with_retry(post_script)
        pkind  == CallKind(p)
    IN IF logical \in cache
       THEN [b |-> breaker_after(b, pkind, now + p.slept), cache |-> cache,
             kind |-> pkind, now |-> now + p.slept,
             attempts |-> p.attempts, resolved |-> FALSE]
       ELSE IF dkind # "return"
       THEN [b |-> breaker_after(breaker_after(b, dkind, now1), dkind, now1),
             cache |-> cache, kind |-> dkind, now |-> now1,
             attempts |-> d.attempts, resolved |-> TRUE]
       ELSE [b |-> breaker_after(breaker_after(b, dkind, now1), pkind,
                                 now1 + p.slept),
             cache |-> cache \cup {logical}, kind |-> pkind,
             now |-> now1 + p.slept,
             attempts |-> d.attempts + p.attempts, resolved |-> TRUE]

\* CircuitBreaker.__call__.wrapper around create_note
CreateNote ==
    /\ cb_state = "open" => Elapsed(clock)
    /\ \E logical \in LogicalNames, ds \in CallScripts, ps \in CallScripts :
          LET entered == IF cb_state = "open" THEN "half_open" ELSE cb_state
              r == create_note([state |-> entered, failure_count |-> failure_count,
                                last_failure_time |-> last_failure_time],
                               entity_cache, logical, clock, ds, ps)
          IN /\ logical \in entity_cache => ds = [i \in 1..MaxRetries |-> "ok"]
             /\ r.now <= MaxClock
             /\ clock' = r.now
             /\ cb_state' = r.b.state
             /\ failure_count' = r.b.failure_count
             /\ last_failure_time' = r.b.last_failure_time
             /\ entity_cache' = r.cache
             /\ consec' = IF r.kind = "return" THEN 0
                          ELSE IF r.kind = "transient" THEN consec + 1
                          ELSE consec
             /\ last' = [pre_state |-> cb_state, pre_elapsed |-> Elapsed(clock),
                         probe |-> entered = "half_open",
                         kind |-> r.kind, fn_calls |-> 1, attempts |-> r.attempts]

(***************************************************************************)
(* Guardrails (utils/guardrails.py)                                        *)
(***************************************************************************)
MaxRunIds == 2          \* run ids minted over a behaviour
NoRunId == 0            \* the caller passed no run_id
UnknownRunId == 0 - 1   \* a run id the caller made up, not in active_runs
NoResult == [success |-> FALSE, run_id |-> NoRunId, dry_run |-> FALSE,
             error |-> None, minted |-> FALSE, was_approved |-> FALSE,
             invoked |-> FALSE, body_dry_run |-> FALSE, called |-> FALSE,
             dry_arg |-> "absent", run_dry |-> FALSE, body |-> "none"]

\* Mutant: a new run is born approved
create_run_id_approved(runs, dry_default) ==
    Append(runs, [status |-> "created", dry_run |-> dry_default,
                  approved |-> TRUE, result |-> None])

\* GuardrailManager.create_run_id: the new run is the next index
create_run_id(runs, dry_default) ==
    Append(runs, [status |-> "created", dry_run |-> dry_default,
                  approved |-> FALSE, result |-> None])

\* GuardrailManager.approve_run
approve_run(runs, run_id) ==
    IF run_id \notin DOMAIN runs THEN runs
    ELSE [runs EXCEPT ![run_id].approved = TRUE, ![run_id].status = "approved"]

\* Mutant: a run id that is not registered counts as approved
is_approved_lax(runs, required, run_id) ==
    IF ~required THEN TRUE
    ELSE IF run_id \notin DOMAIN runs THEN TRUE
    ELSE runs[run_id].approved

\* GuardrailManager.is_approved
is_approved(runs, required, run_id) ==
    IF ~required THEN TRUE
    ELSE IF run_id \notin DOMAIN runs THEN FALSE
    ELSE runs[run_id].approved

\* GuardrailManager.is_dry_run
is_dry_run(runs, dry_default, run_id) ==
    IF run_id \notin DOMAIN runs THEN dry_default ELSE runs[run_id].dry_run

\* GuardrailManager.complete_run
complete_run(runs, run_id, success, result) ==
    IF run_id \notin DOMAIN runs THEN runs
    ELSE [runs EXCEPT ![run_id].status = IF success THEN "completed" ELSE "failed",
                      ![run_id].result = result]

\* Mutant: the caller's dry_run keyword always wins
effective_dry_run_caller(dry_arg, run_is_dry) ==
    IF dry_arg = "absent" THEN run_is_dry ELSE dry_arg = "true"

\* The dry_run keyword the wrapped function receives (wrapper lines 160-164)
effective_dry_run(dry_arg, run_is_dry) ==
    IF dry_arg = "absent" THEN run_is_dry
    ELSE IF run_is_dry /\ dry_arg = "false" THEN TRUE
    ELSE dry_arg = "true"

\* safe_operation.wrapper: run_arg and dry_arg are the caller's keywords
\* (NoRunId, "absent" when not passed), body is what the wrapped function does
\* once invoked
wrapper(runs, required, dry_default, run_arg, dry_arg, body) ==
    LET mint   == run_arg = NoRunId
        runs1  == IF mint THEN create_run_id(runs, dry_default) ELSE runs
        run_id == IF mint THEN Len(runs1) ELSE run_arg
        dry    == is_dry_run(runs1, dry_default, run_id)
        was    == run_id \in DOMAIN runs1 /\ runs1[run_id].approved
    IN IF ~is_approved(runs1, required, run_id)
       THEN [runs |-> runs1,
             res |-> [success |-> FALSE, run_id |-> run_id, dry_run |-> dry,
                      error |-> "Operation not approved. Use --approve flag.",
                      minted |-> mint, was_approved |-> was,
                      invoked |-> FALSE, body_dry_run |-> FALSE, called |-> TRUE,
                      dry_arg |-> dry_arg, run_dry |-> dry, body |-> "none"]]
       ELSE LET eff == effective_dry_run(dry_arg, dry)
            IN IF body = "returns"
               THEN [runs |-> complete_run(runs1, run_id, TRUE, "result"),
                     res |-> [success |-> TRUE, run_id |-> run_id, dry_run |-> eff,
                              error |-> None, minted |-> mint, was_approved |-> was,
                              invoked |-> TRUE, body_dry_run |-> eff, called |-> TRUE,
                              dry_arg |-> dry_arg, run_dry |-> dry, body |-> body]]
               ELSE [runs |-> complete_run(runs1, run_id, FALSE, "error"),
                     res |-> [success |-> FALSE, run_id |-> run_id, dry_run |-> dry,
                              error |-> "error", minted |-> mint, was_approved |-> was,
                              invoked |-> TRUE, body_dry_run |-> eff, called |-> TRUE,
                              dry_arg |-> dry_arg, run_dry |-> dry, body |-> body]]

GuardInit ==
    /\ require_approval \in BOOLEAN      \* BLC_REQUIRE_APPROVAL
    /\ dry_run_default \in BOOLEAN       \* BLC_DRY_RUN_DEFAULT
    /\ active_runs = <<>>
    /\ gres = NoResult

\* The CLI creates a run id
CreateRun ==
    /\ Len(active_runs) < MaxRunIds
    /\ active_runs' = create_run_id(active_runs, dry_run_default)
    /\ UNCHANGED <<require_approval, dry_run_default, gres>>

\* The CLI approves a run id
ApproveRun ==
    /\ \E run_id \in DOMAIN active_runs :
          active_runs' = approve_run(active_runs, run_id)
    /\ UNCHANGED <<require_approval, dry_run_default, gres>>

\* A guarded operation is called
GuardedCall ==
    /\ \E run_arg \in DOMAIN active_runs \cup {NoRunId, UnknownRunId},
          dry_arg \in {"absent", "true", "false"},
          body \in {"returns", "raises"} :
          /\ run_arg = NoRunId => Len(active_runs) < MaxRunIds
          /\ LET r == wrapper(active_runs, require_approval, dry_run_default,
                              run_arg, dry_arg, body)
             IN /\ active_runs' = r.runs
                /\ gres' = r.res
    /\ UNCHANGED <<require_approval, dry_run_default>>

\* Trace positions of an operation on a message
EventsOf(tr, op, message_id) ==
    {k \in 1..Len(tr) : tr[k].op = op /\ tr[k].id = message_id}

DispatchOk(tr, message_id) ==
    \E k \in EventsOf(tr, "dispatch", message_id) : tr[k].ok
DispatchFailed(tr, message_id) ==
    \E k \in EventsOf(tr, "dispatch", message_id) : ~tr[k].ok

\* The provider (or the factory in front of it) returned a failed result
ProviderFailed(m) ==
    DispatchFailed(trace, m.id) \/ ~send_message(m, FALSE).success
ProviderError(m) == send_message(m, DispatchFailed(trace, m.id)).error_message

RecordOf(records, record_id) == records[RecordIndex(records, record_id)]

\* C16 as stated: when the provider returns a failed result for a message in
\* a live run, the queue record is failed with the provider's error text, no
\* log entry is written for it and its result entry is failed with that
\* error.
C16_FailedMarked ==
    LiveRun =>
        \A i \in 1..Len(batch) :
            ProviderFailed(batch[i]) =>
                /\ summary.results[i].status = "failed"
                /\ summary.results[i].error = ProviderError(batch[i])
                /\ EventsOf(trace, "log", batch[i].id) = {}
                /\ RecordOf(sched, batch[i].id).status = "failed"
                /\ RecordOf(sched, batch[i].id).error_message = ProviderError(batch[i])

\* C16 amended: when the provider returns a failed result for a message in a
\* live run, the result entry is failed with the provider's error, no log
\* entry is written, and exactly one failed mark carrying that error is
\* attempted; the record is failed with the provider's error text when the
\* store accepts that write, and keeps the status it had when the write
\* fails (the store error is swallowed).
C16_FailedMarkedIfStored ==
    LiveRun =>
        \A i \in 1..Len(batch) :
            ProviderFailed(batch[i]) =>
                /\ summary.results[i].status = "failed"
                /\ summary.results[i].error = ProviderError(batch[i])
                /\ EventsOf(trace, "log", batch[i].id) = {}
                /\ EventsOf(trace, "mark_sent", batch[i].id) = {}
                /\ Cardinality(EventsOf(trace, "mark_failed", batch[i].id)) = 1
                /\ \A k \in EventsOf(trace, "mark_failed", batch[i].id) :
                      IF trace[k].ok
                      THEN /\ RecordOf(sched, batch[i].id).status = "failed"
                           /\ RecordOf(sched, batch[i].id).error_message =
                                 ProviderError(batch[i])
                      ELSE RecordOf(sched, batch[i].id) = batch[i]

\* C16 witness: the dispatch of a revised sms failed and the record is
\* failed with the provider's error
C16_Witness ==
    /\ LiveRun
    /\ \E i \in 1..Len(batch) :
          /\ batch[i].message_type = "sms" /\ batch[i].status = "revised"
          /\ DispatchFailed(trace, batch[i].id)
          /\ RecordOf(sched, batch[i].id).status = "failed"
          /\ RecordOf(sched, batch[i].id).error_message = "vendor error"

\* Every store write of the trace was accepted
StoreAccepted(tr) ==
    \A k \in 1..Len(tr) : tr[k].op \in {"log", "mark_sent", "mark_failed"} => tr[k].ok

LogEntriesOf(entries, message_id) ==
    {j \in 1..Len(entries) : entries[j].message_id = message_id}

\* The name of the provider that sends the type
SenderName(message_type) ==
    IF message_type \in {"email", "teams"} THEN "GraphMessagingProvider"
    ELSE "RespondMessagingProvider"

C18_MarkFailureReported ==
    LiveRun =>
        \A i \in 1..Len(batch) :
            (DispatchOk(trace, batch[i].id) /\ Raised(batch[i].id)) =>
                /\ summary.results[i].status = "failed"
                /\ summary.results[i].error = StoreError
                /\ Len(summary.results) = Len(batch)
                /\ \A j \in (i + 1)..Len(batch) :
                      \E k \in 1..Len(trace) :
                          /\ trace[k].id = batch[j].id
                          /\ \A k0 \in EventsOf(trace, "mark_sent", batch[i].id) : k0 < k

\* C18 witness: the sent mark of the first of two messages failed, its entry
\* carries the store error and the second message has its entry
C18_Witness ==
    /\ LiveRun /\ Len(batch) = 2
    /\ DispatchOk(trace, batch[1].id) /\ Raised(batch[1].id)
    /\ summary.results[1].error = StoreError
    /\ summary.results[2].message_id = batch[2].id

\* C19: after every successful dispatch the log write is attempted next and
\* the sent mark is attempted right after it, whether or not the log write
\* succeeded; a failed log write leaves the outcome of the message as it is
\* (success, status sent).
C19_LogBeforeMark ==
    LiveRun =>
        /\ \A k \in 1..Len(trace) :
              (trace[k].op = "dispatch" /\ trace[k].ok) =>
                  /\ k + 2 <= Len(trace)
                  /\ trace[k + 1].op = "log" /\ trace[k + 1].id = trace[k].id
                  /\ trace[k + 2].op = "mark_sent" /\ trace[k + 2].id = trace[k].id
        /\ \A i \in 1..Len(batch) :
              (/\ \E k \in EventsOf(trace, "log", batch[i].id) : ~trace[k].ok
               /\ ~Raised(batch[i].id)) =>
                  /\ summary.results[i].status = "success"
                  /\ StatusOf(sched, batch[i].id) = "sent"

\* C19 witness: the log write of a sent message failed and the message is
\* marked sent
C19_Witness ==
    /\ LiveRun
    /\ \E i \in 1..Len(batch) :
          /\ \E k \in EventsOf(trace, "log", batch[i].id) : ~trace[k].ok
          /\ \E k \in EventsOf(trace, "mark_sent", batch[i].id) : trace[k].ok
          /\ summary.results[i].status = "success"

\* C25: in a live run no message whose dispatch succeeded, and for which
\* the sent log entry was written, ends the run with status failed, also
\* when the sent mark fails.
C25_SentNeverFailed ==
    LiveRun =>
        \A i \in 1..Len(batch) :
            (/\ DispatchOk(trace, batch[i].id)
             /\ \E k \in EventsOf(trace, "log", batch[i].id) : trace[k].ok) =>
                StatusOf(sched, batch[i].id) # "failed"

(***************************************************************************)
(* Dataverse connection pool (dataverse/client.py)                         *)
(***************************************************************************)
MaxClients == 3         \* httpx clients created over a behaviour
MaxTokens == 2          \* tokens the credential provider issues over a behaviour

\* The impersonate_user_id arguments: None, the empty string and two user ids
PoolKeys == {None, "", "user-1", "user-2"}

\* dv_client: the MSCRMCallerID header of the client built for the argument;
\* a falsy argument (None or '') builds a client without the header, the
\* default identity
CallerId(key) == IF key = None \/ key = "" THEN None ELSE key

\* dv_client: the Authorization header is built from dv_token() when the
\* client is built
dv_client(key, token) ==
    [caller_id |-> CallerId(key), is_closed |-> FALSE, token |-> token]

\* token: the bearer token of the client handed out, which the request of
\* the calling operation carries; current: what dv_token() returns then
NotGot == [op |-> "none", key |-> None, client |-> 0, created |-> FALSE,
           raised |-> FALSE, prior |-> 0, prior_open |-> FALSE,
           token |-> 0, current |-> 0]

\* get_pooled_client: fails says that dv_client raises (no token, no URL)
get_pooled_client(pool, cl, key, fails, token) ==
    LET c     == pool[key]
        stale == c = 0 \/ cl[c].is_closed
        base  == [NotGot EXCEPT !.op = "get", !.key = key, !.prior = c,
                                !.prior_open = ~stale, !.current = token]
    IN IF ~stale
       THEN [pool |-> pool, clients |-> cl,
             got |-> [base EXCEPT !.client = c, !.token = cl[c].token]]
       ELSE IF fails
       THEN [pool |-> pool, clients |-> cl, got |-> [base EXCEPT !.raised = TRUE]]
       ELSE LET cl1 == Append(cl, dv_client(key, token))
            IN [pool |-> [pool EXCEPT ![key] = Len(cl1)], clients |-> cl1,
                got |-> [base EXCEPT !.client = Len(cl1), !.created = TRUE,
                                     !.token = token]]

\* close_pooled_clients: every pooled client is closed, the pool is cleared
close_pooled_clients(pool, cl) ==
    [pool |-> [k \in PoolKeys |-> 0],
     clients |-> [i \in 1..Len(cl) |->
                     IF \E k \in PoolKeys : pool[k] = i
                     THEN [cl[i] EXCEPT !.is_closed = TRUE] ELSE cl[i]]]

PoolInit ==
    /\ pooled_clients = [k \in PoolKeys |-> 0]
    /\ clients = <<>>
    /\ got = NotGot
    /\ token_now = 1

\* The _op of a data-store operation takes its client from the pool
GetPooledClient ==
    /\ \E key \in PoolKeys, fails \in BOOLEAN :
          LET r == get_pooled_client(pooled_clients, clients, key, fails, token_now)
          IN /\ Len(r.clients) <= MaxClients
             /\ pooled_clients' = r.pool
             /\ clients' = r.clients
             /\ got' = r.got
    /\ UNCHANGED token_now

\* The token expires: the credential provider issues the next one
TokenExpires ==
    /\ token_now < MaxTokens
    /\ token_now' = token_now + 1
    /\ UNCHANGED <<pooled_clients, clients, got>>

ClosePooledClients ==
    LET r == close_pooled_clients(pooled_clients, clients)
    IN /\ pooled_clients' = r.pool
       /\ clients' = r.clients
       /\ got' = [NotGot EXCEPT !.op = "close"]
       /\ UNCHANGED token_now

\* The holder of a client closes it (httpx.Client.close)
CloseClient ==
    /\ \E i \in 1..Len(clients) :
          /\ ~clients[i].is_closed
          /\ clients' = [clients EXCEPT ![i].is_closed = TRUE]
    /\ UNCHANGED <<pooled_clients, got, token_now>>

(***************************************************************************)
(* Claims about the retry wrapper, the circuit breaker and the guardrails  *)
(***************************************************************************)
\* C7: the call that makes it FailureThreshold consecutive transiently failed
\* calls leaves the circuit open, and a call made while the circuit is open
\* and the recovery timeout has not elapsed fails fast: the wrapped function
\* is not called and no HTTP attempt is made.
C7_OpensAndFailsFast ==
    /\ (last.kind = "transient" /\ consec >= FailureThreshold) => cb_state = "open"
    /\ (last.kind # "none" /\ last.pre_state = "open" /\ ~last.pre_elapsed) =>
          (last.kind = "circuit_open" /\ last.fn_calls = 0 /\ last.attempts = 0)

\* C7 witness: the threshold was reached by transient failures and the next
\* call failed fast
C7_Witness ==
    /\ consec >= FailureThreshold
    /\ last.kind = "circuit_open"
    /\ cb_state = "open"

\* C8: a call made while the circuit is open and the recovery timeout has
\* elapsed is the one probe; if the probe succeeds the breaker is closed with
\* failure_count 0, and if it fails the breaker is open again.
C8_ProbeClosesOrReopens ==
    (last.kind # "none" /\ last.pre_state = "open" /\ last.pre_elapsed) =>
        /\ last.probe /\ last.fn_calls = 1
        /\ last.kind = "return" => (cb_state = "closed" /\ failure_count = 0)
        /\ last.kind # "return" => cb_state = "open"

\* The first attempt of the script that does not fail transiently, 0 if none
FirstFinal(outcomes) ==
    IF \E i \in 1..MaxRetries : outcomes[i] \notin Transient
    THEN CHOOSE i \in 1..MaxRetries :
            /\ outcomes[i] \notin Transient
            /\ \A j \in 1..(i - 1) : outcomes[j] \in Transient
    ELSE 0

\* C9: the retry wrapper makes at most MaxRetries attempts; it makes another
\* attempt only after a timeout, a connection error or a 5xx; a 4xx is raised
\* at once and a success returns at once; when every attempt fails
\* transiently, the error of the last attempt is raised.
C9_RetryContract ==
    retried # NotCalled =>
        LET k == FirstFinal(script)
        IN /\ retried.attempts <= MaxRetries
           /\ \A j \in 1..(retried.attempts - 1) : script[j] \in Transient
           /\ k # 0 => retried.attempts = k
           /\ (k # 0 /\ script[k] = "ok") => ~retried.raised
           /\ (k # 0 /\ script[k] # "ok") =>
                 (retried.raised /\ retried.error = <<script[k], k>>)
           /\ k = 0 => /\ retried.raised
                       /\ retried.attempts = MaxRetries
                       /\ retried.error = <<script[MaxRetries], MaxRetries>>

\* C9 witness: a 4xx on the second attempt, after one transient failure
C9_Witness ==
    /\ retried # NotCalled
    /\ script[1] \in Transient /\ script[2] = "4xx"
    /\ retried.attempts = 2 /\ retried.raised

\* C10: with approval enforced, a guarded call on a run that is not approved
\* never invokes the wrapped function and returns the failure result carrying
\* the run id.
C10_UnapprovedNeverInvoked ==
    (gres.called /\ require_approval /\ ~gres.was_approved) =>
        /\ ~gres.invoked
        /\ ~gres.success
        /\ gres.error = "Operation not approved. Use --approve flag."
        /\ gres.run_id # NoRunId

\* C10 witness: an unapproved call on a run id the caller supplied
C10_Witness ==
    /\ gres.called /\ require_approval /\ ~gres.was_approved
    /\ ~gres.minted /\ gres.run_id \in DOMAIN active_runs
    /\ ~gres.invoked

\* C11: whenever the run's dry_run flag is true, the wrapped function is
\* invoked with dry_run = true, whatever dry_run keyword the caller passed
\* (none, true or false); the result reports dry_run = true as well.
C11_DryRunEnforced ==
    (gres.invoked /\ gres.run_dry) =>
        /\ gres.body_dry_run
        /\ gres.success => gres.dry_run

\* C11 witness: the caller passed dry_run = false on a dry-run run and the
\* wrapped function was invoked
C11_Witness ==
    /\ gres.invoked /\ gres.run_dry /\ gres.dry_arg = "false"
    /\ gres.success /\ gres.body_dry_run

\* C12: a guarded call that passes the approval check returns a result, and
\* on return the run it names is recorded as completed (the function
\* returned) or failed (the function raised) with the result or error
\* payload, for every run id the caller may supply.
C12_CompletionRecorded ==
    [][(GuardedCall /\ gres'.invoked) =>
          /\ gres'.run_id \in DOMAIN active_runs'
          /\ active_runs'[gres'.run_id].status =
                (IF gres'.body = "returns" THEN "completed" ELSE "failed")
          /\ active_runs'[gres'.run_id].result =
                (IF gres'.body = "returns" THEN "result" ELSE "error")
          /\ gres'.success = (gres'.body = "returns")]_vars

\* C24: the breaker is CLOSED exactly when failure_count is below the
\* threshold, and whenever it is OPEN last_failure_time is set, so that the
\* recovery timeout can elapse.
C24_StateMatchesCount ==
    /\ (cb_state = "closed") <=> (failure_count < FailureThreshold)
    /\ cb_state = "open" => last_failure_time # NoTime
    /\ cb_state = "open" => last_failure_time <= clock

\* C24 witness: the circuit is open and the recovery timeout has elapsed
C24_Witness ==
    /\ cb_state = "open" /\ failure_count >= FailureThreshold
    /\ Elapsed(clock)

\* C26: after a guarded call has finished the breaker is CLOSED or OPEN,
\* never HALF_OPEN, however the call ended.
C26_NeverLeftHalfOpen == cb_state \in {"closed", "open"}

\* C27: a call that ends with a 4xx client error leaves failure_count and
\* the state of the breaker unchanged.
C27_ClientErrorNotCounted ==
    [][(CallThrough /\ last'.kind = "http_error") =>
          (failure_count' = failure_count /\ cb_state' = cb_state)]_vars

\* C28: a failing data-store operation, whichever it is and whether or not
\* it first has to resolve an entity name, increments failure_count by
\* exactly one.
C28_OneFailureOneCount ==
    [][((CallThrough \/ CreateNote) /\ last'.kind \in {"transient", "http_error"}) =>
          failure_count' = failure_count + 1]_vars

\* C29: with approval enforced, a guarded call made without a run_id never
\* invokes the wrapped function: it returns the not-approved failure and
\* the run the wrapper minted is left in status created.
C29_MintedRunNeverExecutes ==
    [][(GuardedCall /\ require_approval /\ gres'.minted) =>
          /\ ~gres'.invoked /\ ~gres'.success
          /\ gres'.error = "Operation not approved. Use --approve flag."
          /\ gres'.run_id = Len(active_runs') /\ Len(active_runs') = Len(active_runs) + 1
          /\ active_runs'[gres'.run_id].status = "created"
          /\ ~active_runs'[gres'.run_id].approved]_vars

\* C29 witness: a call without run_id was refused and its run is created
C29_Witness ==
    /\ gres.called /\ require_approval /\ gres.minted
    /\ ~gres.invoked
    /\ active_runs[gres.run_id].status = "created"

\* C30: once a run is completed or failed, no guardrail operation changes
\* its status or its recorded result.
C30_FinishedRunFrozen ==
    [][\A id \in DOMAIN active_runs :
          active_runs[id].status \in {"completed", "failed"} =>
              /\ active_runs'[id].status = active_runs[id].status
              /\ active_runs'[id].result = active_runs[id].result]_vars

(***************************************************************************)
(* Claims about the messaging factory and the providers                    *)
(***************************************************************************)
\* The registry positions whose provider declares support for the type
Supporting(registry, message_type) ==
    {i \in 1..Len(registry) : supports_message_type(registry[i].cls, message_type)}

\* C13: routing returns the earliest-registered provider that supports the
\* message type, none when no provider supports it; a second routing call on
\* the same registry returns the same provider; the default construction
\* registers 'graph' before 'respond'.
C13_FirstRegisteredWins ==
    /\ flast.op = "route" =>
          LET S == Supporting(providers, flast.message_type)
          IN /\ S = {} => flast.provider = NoProvider
             /\ S # {} => \E i \in S : /\ \A j \in S : i <= j
                                       /\ flast.provider = providers[i]
             /\ flast.again = flast.provider
    /\ Providers[1].name = "graph" /\ Providers[2].name = "respond"

\* C13 witness: two registered providers support the routed type and the
\* one registered first was returned
C13_Witness ==
    /\ flast.op = "route"
    /\ Cardinality(Supporting(providers, flast.message_type)) >= 2
    /\ \E i \in 1..Len(providers) :
          /\ flast.provider = providers[i]
          /\ \E j \in Supporting(providers, flast.message_type) : i < j

\* C14: a factory send of a message with no message_type, or with a type no
\* registered provider supports, returns a failed MessageResult (naming the
\* type in the second case) that no provider produced: no provider's send
\* was called and nothing was dispatched.
C14_RoutingFailureIsResult ==
    (/\ flast.op = "send"
     /\ \/ flast.m.message_type = NoType
        \/ Supporting(providers, flast.m.message_type) = {}) =>
        /\ ~flast.result.success
        /\ flast.result.provider = None
        /\ ~flast.result.dispatched
        /\ flast.m.message_type # NoType =>
              flast.result.error_message =
                  "No provider available for message type: " \o flast.m.message_type

\* C14 witness: a carrier_pigeon message was sent through a factory that has
\* providers, and a message without a type too
C14_Witness ==
    /\ flast.op = "send" /\ providers # <<>>
    /\ flast.m.message_type \in {"carrier_pigeon", NoType}
    /\ flast.m.fields = {"recipient", "subject", "body"}
    /\ ~flast.result.success

\* The fields a message of the type must carry, as the claim lists them
RequiredByType(message_type) ==
    {"body"} \cup
    (IF message_type = "email" THEN {"recipient", "subject"}
     ELSE IF message_type \in {"sms", "whatsapp"} THEN {"recipient"}
     ELSE IF message_type = "teams" THEN {"channel_id"}
     ELSE IF message_type = "telegram" THEN {"chat_id"}
     ELSE {})

\* C15: a provider's send of a message that lacks its message_type or one of
\* the fields its type requires returns a failed MessageResult without
\* executing the dispatch step; a dispatch that raises is returned as a
\* failed MessageResult; a successful result comes from a dispatch.
C15_ValidateBeforeDispatch ==
    psent.called =>
        /\ (\/ psent.m.message_type = NoType
            \/ ~(RequiredByType(psent.m.message_type) \subseteq psent.m.fields)) =>
              (~psent.result.success /\ ~psent.result.dispatched)
        /\ (psent.result.dispatched /\ psent.raises) => ~psent.result.success
        /\ psent.result.success => psent.result.dispatched
        /\ psent.result.provider = provider_name(psent.cls)

\* C15 witness: an email without subject was handed to the provider that
\* sends email
C15_Witness ==
    /\ psent.called /\ psent.cls = "graph"
    /\ psent.m.message_type = "email"
    /\ psent.m.fields = {"recipient", "body"}
    /\ ~psent.result.success /\ ~psent.result.dispatched

(***************************************************************************)
(* Claims about the Dataverse connection pool                              *)
(***************************************************************************)
\* C20: the pool holds at most one client per impersonation identity, the
\* default identity being one key; a request for an identity whose pooled
\* client is not closed returns that client and creates none; clients of
\* different identities are different; a client is created only when its
\* key has no open pooled client; after close_pooled_clients the pool is
\* empty.
C20_OneClientPerIdentity ==
    /\ \A k1, k2 \in PoolKeys :
          (/\ pooled_clients[k1] # 0 /\ pooled_clients[k2] # 0
           /\ CallerId(k1) = CallerId(k2)) => k1 = k2
    /\ \A k1, k2 \in PoolKeys :
          (k1 # k2 /\ pooled_clients[k1] # 0) =>
              pooled_clients[k1] # pooled_clients[k2]
    /\ \A k \in PoolKeys :
          pooled_clients[k] # 0 =>
              clients[pooled_clients[k]].caller_id = CallerId(k)
    /\ (got.op = "get" /\ got.prior_open) =>
          (got.client = got.prior /\ ~got.created /\ ~got.raised)
    /\ (got.op = "get" /\ got.created) => ~got.prior_open
    /\ got.op = "close" => \A k \in PoolKeys : pooled_clients[k] = 0

\* C21: the request of every data-store call carries the token that the
\* credential provider returns at the time of that call, never a token that
\* was acquired for an earlier call.
C21_TokenPerCall ==
    (got.op = "get" /\ ~got.raised) => got.token = got.current

(***************************************************************************)
(* Dynamics message processor (azure/dynamics_message_processor.py)        *)
(***************************************************************************)
MaxDynMsgs == 2     \* records ever created in cre92_scheduledmessage
MaxDynRuns == 2     \* runs of the Dynamics processor explored
DynTop == 50        \* top=50 of the pending query

DynFilter ==
    "(MessageStatus eq 'Revised' or MessageStatus eq 2) and ScheduledTimestamp le utcNow() and Sent eq false"

\* What the pending filter of the Dynamics processor asks of a record
DynPending(r) == r.MessageStatus = "Revised" /\ ~r.Sent

query_pending_dynamics_messages(records) == query_records(records, DynFilter, DynTop)

\* _convert_dynamics_to_messaging_format: the messaging fields that come out
\* present and non-empty
convert_dynamics_to_messaging_format(r) ==
    [id |-> r.MessageID, message_type |-> r.MessageType,
     fields |->
        (IF "MessageText" \in r.fields THEN {"body"} ELSE {}) \cup
        (CASE r.MessageType = "email" ->
                (IF "Email" \in r.fields THEN {"recipient"} ELSE {}) \cup
                (IF "MessageSubject" \in r.fields THEN {"subject"} ELSE {})
           [] r.MessageType = "telegram" ->
                (IF "TelegramID" \in r.fields THEN {"chat_id"} ELSE {})
           [] r.MessageType = "whatsapp" ->
                (IF "WhatsAppID" \in r.fields THEN {"recipient"} ELSE {})
           [] r.MessageType = "sms" ->
                (IF "PhoneNumber" \in r.fields THEN {"recipient"} ELSE {})
           [] OTHER -> {})]

\* One entry of the trace: rec is the store id of the record being
\* processed, target the id the call was made with
DynEvent(op, rec, target, ok) == [op |-> op, rec |-> rec, target |-> target, ok |-> ok]

DynResult(status, r, error) ==
    [status |-> status, message_id |-> r.MessageID, rec |-> r.id, error |-> error]

\* MockDataverse.update_record with {'Sent': sent}: the record whose 'id' is
\* record_id is updated; ok = FALSE stands for the ValueError
update_sent(records, record_id, sent) ==
    LET i == RecordIndex(records, record_id)
    IN IF i = 0 THEN [ok |-> FALSE, records |-> records]
       ELSE [ok |-> TRUE, records |-> [records EXCEPT ![i].Sent = sent]]

\* _mark_dynamics_message_failed: Sent = False is written, an error of the
\* store is swallowed
mark_dynamics_message_failed(w, r) ==
    LET u == update_sent(w.sched, r.MessageID, FALSE)
    IN [w EXCEPT !.sched = u.records,
                 !.trace = Append(w.trace, DynEvent("mark_failed", r.id, r.MessageID, u.ok))]

\* _mark_dynamics_message_sent: Sent = True is written, an error of the store
\* is raised again
mark_dynamics_message_sent(w, r) ==
    LET u == update_sent(w.sched, r.MessageID, TRUE)
    IN [raised |-> ~u.ok,
        w |-> [w EXCEPT !.sched = u.records,
                        !.trace = Append(w.trace, DynEvent("mark_sent", r.id, r.MessageID, u.ok))]]

\* _log_dynamics_message_sent
log_dynamics_message_sent(w, r, res) ==
    [w EXCEPT !.mlog = create_record(w.mlog,
                          [id |-> 0, message_id |-> r.MessageID,
                           message_type |-> r.MessageType, status |-> "sent",
                           provider |-> res.provider,
                           message_id_external |-> res.external_id])]

\* _process_dynamics_message
process_dynamics_message(w, r, dry_run, raises) ==
    IF dry_run
    THEN [raised |-> FALSE, w |-> w, result |-> DynResult("dry_run", r, "")]
    ELSE LET res == send_message(convert_dynamics_to_messaging_format(r), raises)
             w1  == IF res.dispatched
                    THEN [w EXCEPT !.trace = Append(w.trace,
                                      DynEvent("dispatch", r.id, r.MessageID, res.success))]
                    ELSE w
         IN IF res.success
            THEN LET ms == mark_dynamics_message_sent(
                               log_dynamics_message_sent(w1, r, res), r)
                 IN [raised |-> ms.raised, w |-> ms.w,
                     result |-> DynResult("success", r, "")]
            ELSE [raised |-> FALSE, w |-> mark_dynamics_message_failed(w1, r),
                  result |-> DynResult("failed", r, res.error_message)]

\* One iteration of the for loop of process_dynamics_messages
process_dynamics_one(w, r, dry_run, raises) ==
    LET p == process_dynamics_message(w, r, dry_run, raises)
    IN IF ~p.raised
       THEN [p.w EXCEPT !.results = Append(p.w.results, p.result)]
       ELSE LET w1 == [p.w EXCEPT !.results =
                          Append(p.w.results, DynResult("failed", r, StoreError))]
            IN IF ~dry_run THEN mark_dynamics_message_failed(w1, r) ELSE w1

RECURSIVE process_dynamics_loop(_, _, _, _, _)
process_dynamics_loop(w, messages, i, dry_run, failing) ==
    IF i > Len(messages) THEN w
    ELSE process_dynamics_loop(
             process_dynamics_one(w, messages[i], dry_run, i \in failing),
             messages, i + 1, dry_run, failing)

\* The two return statements of process_dynamics_messages
NoDynSummary == [kind |-> "none", status |-> "", processed_count |-> 0,
                 success_count |-> 0, failed_count |-> 0,
                 has_results |-> FALSE, results |-> <<>>]

DynEmptySummary == [NoDynSummary EXCEPT !.kind = "summary", !.status = "success"]

DynBatchSummary(results) ==
    [kind |-> "summary", status |-> "success",
     processed_count |-> Len(results),
     success_count |-> CountStatus(results, "success"),
     failed_count |-> CountStatus(results, "failed"),
     has_results |-> TRUE, results |-> results]

\* The records an upstream process creates: an email with all its fields and
\* one without subject
DynSamples ==
    { [MessageType |-> "email", fields |-> {"Email", "MessageSubject", "MessageText"}],
      [MessageType |-> "email", fields |-> {"Email", "MessageText"}] }

\* The MessageID values of those records: one that is no record id of the
\* store (as 'test-dynamics-1' is none), or one that happens to be one
ExternalMessageId == MaxDynMsgs + 1
DynMessageIds == (1..MaxDynMsgs) \cup {ExternalMessageId}

DynInit ==
    /\ dyn_table = <<>>
    /\ dyn_log = <<>>
    /\ dyn_summary = NoDynSummary
    /\ dyn_dry_run = FALSE
    /\ dyn_batch = <<>>
    /\ dyn_trace = <<>>
    /\ dyn_runs = 0

\* An upstream process creates a record (MockDataverse.create_record)
DynEnqueue ==
    /\ Len(dyn_table) < MaxDynMsgs
    /\ \E s \in DynSamples, mid \in DynMessageIds :
          dyn_table' = create_record(dyn_table,
                          [id |-> 0, MessageID |-> mid, MessageStatus |-> "Revised",
                           MessageType |-> s.MessageType, fields |-> s.fields,
                           Sent |-> FALSE])
    /\ UNCHANGED <<dyn_log, dyn_summary, dyn_dry_run, dyn_batch, dyn_trace, dyn_runs>>

\* process_dynamics_messages: one whole run, once the guardrail wrapper has
\* let it through; failing is the set of batch positions whose vendor call
\* raises
DynRun ==
    /\ dyn_runs < MaxDynRuns
    /\ dyn_runs' = dyn_runs + 1
    /\ \E dry_run \in BOOLEAN :
          LET messages == query_pending_dynamics_messages(dyn_table)
          IN /\ dyn_dry_run' = dry_run
             /\ dyn_batch' = messages
             /\ IF messages = <<>>
                THEN /\ dyn_summary' = DynEmptySummary
                     /\ dyn_trace' = <<>>
                     /\ UNCHANGED <<dyn_table, dyn_log>>
                ELSE \E failing \in SUBSET (1..Len(messages)) :
                        LET w == process_dynamics_loop(
                                     Work(dyn_table, dyn_log, <<>>, <<>>),
                                     messages, 1, dry_run, failing)
                        IN /\ dry_run => failing = {}
                           /\ dyn_table' = w.sched
                           /\ dyn_log' = w.mlog
                           /\ dyn_trace' = w.trace
                           /\ dyn_summary' = DynBatchSummary(w.results)

\* C22: a record the Dynamics processor has marked failed no longer matches
\* the processor's pending filter, and the next run does not dispatch it.
C22_FailedLeavesQueue ==
    [][\A k \in 1..Len(dyn_trace) :
          (dyn_trace[k].op = "mark_failed" /\ dyn_trace[k].ok) =>
              /\ ~DynPending(RecordOf(dyn_table, dyn_trace[k].target))
              /\ (dyn_runs' = dyn_runs + 1) =>
                    \A j \in 1..Len(dyn_trace') :
                        dyn_trace'[j].op = "dispatch" =>
                            dyn_trace'[j].rec # dyn_trace[k].target]_vars

\* C23: in a live run, a record that is dispatched successfully ends the
\* run with Sent = true and its result entry has status success.
C23_SentMarksQueriedRecord ==
    (dyn_summary.kind = "summary" /\ ~dyn_dry_run) =>
        \A i \in 1..Len(dyn_batch) :
            (\E k \in 1..Len(dyn_trace) :
                /\ dyn_trace[k].op = "dispatch" /\ dyn_trace[k].ok
                /\ dyn_trace[k].rec = dyn_batch[i].id) =>
                    /\ RecordOf(dyn_table, dyn_batch[i].id).Sent
                    /\ dyn_summary.results[i].status = "success"

(***************************************************************************)
(* Specifications: one per subsystem, the others idle                      *)
(***************************************************************************)
ProcIdle ==
    /\ sched = <<>> /\ mlog = <<>> /\ summary = NoSummary /\ batch = <<>>
    /\ trace = <<>> /\ nruns = 0 /\ nfaults = 0 /\ added = FALSE
CbIdle == CbInit
RetryIdle == script = <<>> /\ retried = NotCalled
GuardIdle ==
    /\ require_approval = TRUE /\ dry_run_default = TRUE
    /\ active_runs = <<>> /\ gres = NoResult
MsgIdle == providers = Providers /\ flast = NoOp /\ psent = NoProviderSend
PoolIdle == PoolInit
DynIdle == DynInit

\* The scheduled message processor
Init == ProcInit /\ CbIdle /\ RetryIdle /\ GuardIdle /\ MsgIdle /\ PoolIdle /\ DynIdle
Next ==
    \/ Enqueue /\ UNCHANGED <<cbVars, retryVars, guardVars, msgVars, poolVars, dynVars>>
    \/ RunQueryFails /\ UNCHANGED <<cbVars, retryVars, guardVars, msgVars, poolVars, dynVars>>
    \/ ProcessRun /\ UNCHANGED <<cbVars, retryVars, guardVars, msgVars, poolVars, dynVars>>
Spec == Init /\ [][Next]_vars

\* The retry wrapper
InitRetry == RetryInit /\ ProcIdle /\ CbIdle /\ GuardIdle /\ MsgIdle /\ PoolIdle /\ DynIdle
NextRetry ==
    CallWithRetry /\ UNCHANGED <<procVars, cbVars, guardVars, msgVars, poolVars, dynVars>>
SpecRetry == InitRetry /\ [][NextRetry]_vars

\* The circuit breaker around a data-store operation
InitBreaker == CbInit /\ ProcIdle /\ RetryIdle /\ GuardIdle /\ MsgIdle /\ PoolIdle /\ DynIdle
NextBreaker ==
    \/ Tick /\ UNCHANGED <<procVars, retryVars, guardVars, msgVars, poolVars, dynVars>>
    \/ CallFailFast /\ UNCHANGED <<procVars, retryVars, guardVars, msgVars, poolVars, dynVars>>
    \/ CallThrough /\ UNCHANGED <<procVars, retryVars, guardVars, msgVars, poolVars, dynVars>>
SpecBreaker == InitBreaker /\ [][NextBreaker]_vars

\* The data-store operations of dataverse/dev.py under the shared breaker:
\* the operations made of one HTTP call, and create_note
InitOps == CbInit /\ ProcIdle /\ RetryIdle /\ GuardIdle /\ MsgIdle /\ PoolIdle /\ DynIdle
NextOps ==
    \/ CallFailFast /\ UNCHANGED <<procVars, retryVars, guardVars, msgVars, poolVars, dynVars>>
    \/ CallThrough /\ clock' <= MaxOpsClock
          /\ UNCHANGED <<procVars, retryVars, guardVars, msgVars, poolVars, dynVars>>
    \/ CreateNote /\ clock' <= MaxOpsClock
          /\ UNCHANGED <<procVars, retryVars, guardVars, msgVars, poolVars, dynVars>>
SpecOps == InitOps /\ [][NextOps]_vars

\* The guardrail wrapper
InitGuard == GuardInit /\ ProcIdle /\ CbIdle /\ RetryIdle /\ MsgIdle /\ PoolIdle /\ DynIdle
NextGuard ==
    \/ CreateRun /\ UNCHANGED <<procVars, cbVars, retryVars, msgVars, poolVars, dynVars>>
    \/ ApproveRun /\ UNCHANGED <<procVars, cbVars, retryVars, msgVars, poolVars, dynVars>>
    \/ GuardedCall /\ UNCHANGED <<procVars, cbVars, retryVars, msgVars, poolVars, dynVars>>
SpecGuard == InitGuard /\ [][NextGuard]_vars

\* The messaging factory: registry changes, routing and factory sends
InitFactory == MsgInit /\ ProcIdle /\ CbIdle /\ RetryIdle /\ GuardIdle /\ PoolIdle /\ DynIdle
NextFactory ==
    \/ AddProvider /\ UNCHANGED <<procVars, cbVars, retryVars, guardVars, poolVars, dynVars>>
    \/ RemoveProvider /\ UNCHANGED <<procVars, cbVars, retryVars, guardVars, poolVars, dynVars>>
    \/ Route /\ UNCHANGED <<procVars, cbVars, retryVars, guardVars, poolVars, dynVars>>
    \/ FactorySend /\ UNCHANGED <<procVars, cbVars, retryVars, guardVars, poolVars, dynVars>>
SpecFactory == InitFactory /\ [][NextFactory]_vars

\* A messaging provider called directly
InitProvider == MsgIdle /\ ProcIdle /\ CbIdle /\ RetryIdle /\ GuardIdle /\ PoolIdle /\ DynIdle
NextProvider ==
    ProviderSend /\ UNCHANGED <<procVars, cbVars, retryVars, guardVars, poolVars, dynVars>>
SpecProvider == InitProvider /\ [][NextProvider]_vars

\* The Dataverse connection pool
InitPool == PoolInit /\ ProcIdle /\ CbIdle /\ RetryIdle /\ GuardIdle /\ MsgIdle /\ DynIdle
NextPool ==
    \/ GetPooledClient /\ UNCHANGED <<procVars, cbVars, retryVars, guardVars, msgVars, dynVars>>
    \/ ClosePooledClients /\ UNCHANGED <<procVars, cbVars, retryVars, guardVars, msgVars, dynVars>>
    \/ CloseClient /\ UNCHANGED <<procVars, cbVars, retryVars, guardVars, msgVars, dynVars>>
    \/ TokenExpires /\ UNCHANGED <<procVars, cbVars, retryVars, guardVars, msgVars, dynVars>>
SpecPool == InitPool /\ [][NextPool]_vars

\* The Dynamics message processor
InitDynamics ==
    DynInit /\ ProcIdle /\ CbIdle /\ RetryIdle /\ GuardIdle /\ MsgIdle /\ PoolIdle
NextDynamics ==
    \/ DynEnqueue /\ UNCHANGED <<procVars, cbVars, retryVars, guardVars, msgVars, poolVars>>
    \/ DynRun /\ UNCHANGED <<procVars, cbVars, retryVars, guardVars, msgVars, poolVars>>
SpecDynamics == InitDynamics /\ [][NextDynamics]_vars
====
